---------------------------- MODULE Spec2Model ----------------------------
(***************************************************************************)
(* Piano-roll sequencer core of musico-core: pitch/row mapping, the note   *)
(* sequence with its toggle edit, and the playback scheduler of            *)
(* components/EditorCanvas.tsx, with the note sequence owned by App.tsx.   *)
(*                                                                         *)
(* Strings that the code inspects character by character (pitch names) are *)
(* sequences of one-character strings.  JavaScript numbers that can be NaN *)
(* are records [nan, n].  Time is counted in eighths of a second, which is *)
(* the length of one grid unit at 120 BPM (SECONDS_PER_BEAT / 4), so that  *)
(* every time of the program is an integer.                                *)
(*                                                                         *)
(* Every handler runs to its end before the next one starts (JavaScript is *)
(* single-threaded) and reads the state the handler before it left: React  *)
(* renders between two events.  The browser's part (the audio clock, the   *)
(* promise of resume(), the frame callbacks, the AI response) is taken by  *)
(* steps of their own.                                                     *)
(***************************************************************************)
EXTENDS Integers, Sequences, FiniteSets, TLC

VARIABLES
    notes,          \* App.tsx generatedNotes, the prop `notes` of EditorCanvas
    delivered,      \* history: the argument of the last setGeneratedNotes call
    isLoading,      \* App.tsx isLoading: a generateMusicChat call is awaited
    hoveredCell,    \* EditorCanvas state hoveredCell: Null or [row, col]
    isPlaying,      \* EditorCanvas state isPlaying
    playheadPos,    \* EditorCanvas state playheadPos (pixels)
    audioCtx,       \* audioCtxRef / masterGainRef: "null", "suspended" or "running"
    resumePending,  \* a ctx.resume() promise that has not settled yet
    currentTime,    \* ctx.currentTime, the audio clock
    startTimeRef,   \* startTimeRef.current
    animationRef,   \* animationRef.current: 0 (null, falsy) or a frame request id
    frames,         \* pending requestAnimationFrame callbacks with their closure
    activeSources,  \* activeSources.current: the OscillatorNodes pushed, in order
    stopCalls,      \* history: the stop() calls the last stop of playback made
    stopRaised,     \* history: how many of them threw and were caught
    uncaught,       \* TRUE iff the last handler ended with an uncaught exception
    lastOp,         \* history: the handler or step that ran last
    before,         \* history: the note sequence before the last edit step
    before2,        \* history: the note sequence before the edit step before that
    pointer         \* history: Null or the position [x, y] of the last mouse move

vars == <<notes, delivered, isLoading, hoveredCell, isPlaying, playheadPos, audioCtx,
          resumePending, currentTime, startTimeRef, animationRef, frames,
          activeSources, stopCalls, stopRaised, uncaught, lastOp, before,
          before2, pointer>>

Null == [null |-> TRUE]

-----------------------------------------------------------------------------
(* Bounds of the model *)

MaxNotes == 2        \* longest note sequence an edit may produce
MaxCol == 1          \* largest grid column the pointer reaches
MaxClock == 4        \* largest value of the audio clock
MaxOsc == 2          \* oscillators activeSources may hold

-----------------------------------------------------------------------------
(* Program constants, EditorCanvas.tsx lines 11-21 *)

PIXELS_PER_UNIT == 32
ROW_HEIGHT == 20
TEMPO_BPM == 120
\* 60 / TEMPO_BPM seconds, in eighths of a second
SECONDS_PER_BEAT == (60 * 8) \div TEMPO_BPM
QUARTER_DURATION == 4
\* (PIXELS_PER_UNIT * 16) / (SECONDS_PER_BEAT * 4) pixels per second, here per
\* eighth of a second
PIXELS_PER_SECOND == (PIXELS_PER_UNIT * 16) \div (SECONDS_PER_BEAT * 4)
TOTAL_ROWS == 85
START_MIDI == 108

-----------------------------------------------------------------------------
(* JavaScript numbers and strings *)

Num(n) == [nan |-> FALSE, n |-> n]
NaN == [nan |-> TRUE, n |-> 0]

\* a + b
NumAdd(a, b) == IF a.nan \/ b.nan THEN NaN ELSE Num(a.n + b.n)
\* a - b
NumSub(a, b) == IF a.nan \/ b.nan THEN NaN ELSE Num(a.n - b.n)
\* a * b
NumMul(a, b) == IF a.nan \/ b.nan THEN NaN ELSE Num(a.n * b.n)
\* a <= b: every comparison with NaN is false
NumLeq(a, b) == ~a.nan /\ ~b.nan /\ a.n <= b.n
\* a > b
NumGt(a, b) == ~a.nan /\ ~b.nan /\ a.n > b.n
\* the test Web IDL applies to a float or double argument
IsFinite(a) == ~a.nan

Digits == <<"0", "1", "2", "3", "4", "5", "6", "7", "8", "9">>

IsDigit(c) == \E i \in 1..10 : Digits[i] = c

\* parseInt(c, 10) of one digit character
DigitValue(c) == (CHOOSE i \in 1..10 : Digits[i] = c) - 1

RECURSIVE NatToString(_)
NatToString(n) ==
    IF n < 10 THEN <<Digits[n + 1]>>
    ELSE NatToString(n \div 10) \o <<Digits[(n % 10) + 1]>>

\* `${n}` of an integer
NumberToString(n) == IF n < 0 THEN <<"-">> \o NatToString(-n) ELSE NatToString(n)

\* String.prototype.toUpperCase on the characters a pitch name can hold
UpperChar(c) ==
    CASE c = "a" -> "A" [] c = "b" -> "B" [] c = "c" -> "C" [] c = "d" -> "D"
      [] c = "e" -> "E" [] c = "f" -> "F" [] c = "g" -> "G" [] c = "z" -> "Z"
      [] OTHER -> c

ToUpperCase(s) == [i \in 1..Len(s) |-> UpperChar(s[i])]

\* s.includes(c) for a one-character c
Includes(s, c) == \E i \in 1..Len(s) : s[i] = c

\* s.replace(c, ''): removes the first occurrence of c only
ReplaceFirst(s, c) ==
    IF ~Includes(s, c) THEN s
    ELSE LET k == CHOOSE i \in 1..Len(s) :
                      s[i] = c /\ \A j \in 1..(i - 1) : s[j] # c
         IN  SubSeq(s, 1, k - 1) \o SubSeq(s, k + 1, Len(s))

-----------------------------------------------------------------------------
(* constants.ts (src/unnamed/part_001) *)

PITCH_MAP ==
    (<<"C">> :> 0) @@ (<<"C", "#">> :> 1) @@ (<<"D">> :> 2) @@ (<<"D", "#">> :> 3)
    @@ (<<"E">> :> 4) @@ (<<"F">> :> 5) @@ (<<"F", "#">> :> 6) @@ (<<"G">> :> 7)
    @@ (<<"G", "#">> :> 8) @@ (<<"A">> :> 9) @@ (<<"A", "#">> :> 10) @@ (<<"B">> :> 11)

DURATION_MAP ==
    ("whole" :> 16) @@ ("half" :> 8) @@ ("quarter" :> 4) @@ ("eighth" :> 2)

\* PITCH_MAP[key]: undefined for a key the object does not have, and
\* undefined + number is NaN
PitchMapGet(key) == IF key \in DOMAIN PITCH_MAP THEN Num(PITCH_MAP[key]) ELSE NaN

\* Property names every object literal inherits from Object.prototype: a
\* lookup of one of them in DURATION_MAP gives a function (for __proto__, an
\* object), which is truthy.
ObjectPrototypeKeys ==
    {"constructor", "toString", "valueOf", "hasOwnProperty", "__proto__"}

\* mutant: an unknown duration counts as an eighth
DurationUnitsEighth(d) ==
    IF d \in DOMAIN DURATION_MAP THEN Num(DURATION_MAP[d])
    ELSE IF d \in ObjectPrototypeKeys THEN NaN
    ELSE Num(2)

\* DURATION_MAP[d] || 4, as the number its three uses make of it.  An own key
\* gives its number and a missing key gives undefined, hence 4.  An inherited
\* key gives a function f, and f || 4 is f: f * x is NaN, and n + f is a
\* string whose comparison with a number is a comparison with NaN.
DurationUnits(d) ==
    IF d \in DOMAIN DURATION_MAP THEN Num(DURATION_MAP[d])
    ELSE IF d \in ObjectPrototypeKeys THEN NaN
    ELSE Num(4)

-----------------------------------------------------------------------------
(* PitchGrid: EditorCanvas.tsx lines 23-47 *)

noteNames ==
    << <<"C">>, <<"C", "#">>, <<"D">>, <<"D", "#">>, <<"E">>, <<"F">>,
       <<"F", "#">>, <<"G">>, <<"G", "#">>, <<"A">>, <<"A", "#">>, <<"B">> >>

getPitchFromRow(row) ==
    LET midiNote == START_MIDI - row
        name == noteNames[(midiNote % 12) + 1]
        octave == (midiNote \div 12) - 1
    IN  name \o NumberToString(octave)

\* the character classes of /([A-G][#b]?)([0-9])/i
IsNoteLetter(c) == UpperChar(c) \in {"A", "B", "C", "D", "E", "F", "G"}
IsAccidental(c) == c \in {"#", "b", "B"}

\* the match of the pattern that begins at index i: the accidental is tried
\* first (greedy), then the form without it
MatchAt(s, i) ==
    IF i + 2 <= Len(s) /\ IsNoteLetter(s[i]) /\ IsAccidental(s[i + 1])
       /\ IsDigit(s[i + 2])
    THEN [ok |-> TRUE, name |-> <<s[i], s[i + 1]>>, octave |-> s[i + 2]]
    ELSE IF i + 1 <= Len(s) /\ IsNoteLetter(s[i]) /\ IsDigit(s[i + 1])
    THEN [ok |-> TRUE, name |-> <<s[i]>>, octave |-> s[i + 1]]
    ELSE [ok |-> FALSE, name |-> <<>>, octave |-> "0"]

\* pitch.match(/([A-G][#b]?)([0-9])/i): the leftmost match, unanchored
PitchMatch(s) ==
    IF \E i \in 1..Len(s) : MatchAt(s, i).ok
    THEN MatchAt(s, CHOOSE i \in 1..Len(s) :
                        MatchAt(s, i).ok /\ \A j \in 1..(i - 1) : ~MatchAt(s, j).ok)
    ELSE [ok |-> FALSE, name |-> <<>>, octave |-> "0"]

\* mutant: a flat is taken for the sharp of its own letter
accidentalMapUp ==
    (<<"D", "B">> :> <<"D", "#">>) @@ (<<"E", "B">> :> <<"E", "#">>)
    @@ (<<"G", "B">> :> <<"G", "#">>) @@ (<<"A", "B">> :> <<"A", "#">>)
    @@ (<<"B", "B">> :> <<"B", "#">>)

accidentalMap ==
    (<<"D", "B">> :> <<"C", "#">>) @@ (<<"E", "B">> :> <<"D", "#">>)
    @@ (<<"G", "B">> :> <<"F", "#">>) @@ (<<"A", "B">> :> <<"G", "#">>)
    @@ (<<"B", "B">> :> <<"A", "#">>)

\* accidentalMap[name] || name
NormalizedName(name) ==
    IF name \in DOMAIN accidentalMap THEN accidentalMap[name] ELSE name

\* mutant: the semitone of a sharp is not added
NoteValueNoSharp(name) == PitchMapGet(ReplaceFirst(name, "#"))

\* PITCH_MAP[name.replace('#', '')] + (name.includes('#') ? 1 : 0)
NoteValue(name) ==
    NumAdd(PitchMapGet(ReplaceFirst(name, "#")),
           Num(IF Includes(name, "#") THEN 1 ELSE 0))

\* getRowFromPitch from the result of the match on
RowOfMatch(match) ==
    IF ~match.ok THEN Num(0)
    ELSE NumSub(Num(START_MIDI),
                NumAdd(Num((DigitValue(match.octave) + 1) * 12),
                       NoteValue(NormalizedName(ToUpperCase(match.name)))))

getRowFromPitch(pitch) == RowOfMatch(PitchMatch(pitch))

\* 440 * 2^(n / 12) for n in 0..11, in thousandths of a hertz with the factor
\* 2^(-69/12) of MIDI note 0 applied: the frequencies of MIDI notes 0..11
SemitoneMilliHz ==
    <<8176, 8662, 9177, 9723, 10301, 10913, 11562, 12250, 12978, 13750, 14568, 15434>>

RECURSIVE Pow2(_)
Pow2(k) == IF k <= 0 THEN 1 ELSE 2 * Pow2(k - 1)

\* 440 * Math.pow(2, (midiNote - 69) / 12) in thousandths of a hertz, for the
\* MIDI notes a row of getRowFromPitch gives (12..131, or NaN)
FrequencyOfMidi(midiNote) ==
    IF midiNote.nan THEN NaN
    ELSE Num(SemitoneMilliHz[(midiNote.n % 12) + 1] * Pow2(midiNote.n \div 12))

getFrequencyFromPitch(pitch) ==
    FrequencyOfMidi(NumSub(Num(START_MIDI), getRowFromPitch(pitch)))

-----------------------------------------------------------------------------
(* Notes: types.ts (src/unnamed/part_000) lines 1-6 *)

Note(p, d, i, t) == [pitch |-> p, duration |-> d, instrument |-> i, time |-> t]

\* note.instrument.toLowerCase().includes('bass') on the labels of the model
ContainsBass(instrument) == instrument \in {"Bass", "bass", "Synth Bass"}

\* Sequences the AI collaborator may deliver as response.musicalSequence: the
\* schema of geminiService.ts constrains only the field types.
TransportSequences ==
    { << Note(<<"Z", "9">>, "eighth", "Lead", 0),
         Note(<<"C", "4">>, "quarter", "Bass", 0) >>,
      << Note(<<"C", "4">>, "eighth", "Lead", 0),
         Note(<<"C", "b", "4">>, "quarter", "Lead", 0) >> }

EditSequences ==
    { << Note(<<"C", "4">>, "half", "Bass", 0),
         Note(<<"C", "4">>, "eighth", "Lead", 0) >>,
      << Note(<<"D", "b", "4">>, "bogus", "Lead", 1) >>,
      << Note(<<"c", "#", "4">>, "quarter", "Lead", 0),
         Note(<<"C", "#", "4">>, "whole", "Lead", 0) >> }

\* Sequences the scheduling specification starts from: the two notes of the
\* scheduling bound of the specification, a sequence whose first note ends
\* last, every duration name of the table, a name the table lacks, and a name
\* every object inherits.
ScheduleSequences ==
    { <<>>,
      << Note(<<"C", "4">>, "quarter", "Lead", 0),
         Note(<<"E", "4">>, "quarter", "Lead", 8) >>,
      << Note(<<"C", "4">>, "whole", "Bass", 0),
         Note(<<"E", "4">>, "eighth", "Lead", 1) >>,
      << Note(<<"A", "4">>, "bogus", "Lead", 0),
         Note(<<"A", "5">>, "half", "Lead", 2) >>,
      << Note(<<"C", "4">>, "constructor", "Lead", 0) >> }

\* Sequences the liveness specification starts from: their playbacks end
\* within the values the audio clock takes.
LiveSequences ==
    { <<>>,
      << Note(<<"C", "4">>, "eighth", "Lead", 0) >>,
      << Note(<<"C", "4">>, "eighth", "Bass", 0),
         Note(<<"E", "4">>, "eighth", "Lead", 2) >> }

-----------------------------------------------------------------------------
(* Init: the state after App and EditorCanvas are mounted *)

InitOf(ns, cell) ==
    /\ notes = ns
    /\ delivered = ns
    /\ isLoading = FALSE
    /\ hoveredCell = cell
    /\ isPlaying = FALSE
    /\ playheadPos = 0
    /\ audioCtx = "null"
    /\ resumePending = FALSE
    /\ currentTime = 0
    /\ startTimeRef = 0
    /\ animationRef = 0
    /\ frames = {}
    /\ activeSources = <<>>
    /\ stopCalls = 0
    /\ stopRaised = 0
    /\ uncaught = FALSE
    /\ lastOp = "init"
    /\ before = <<>>
    /\ before2 = <<>>
    /\ pointer = Null

InitAt(cell) == InitOf(<<>>, cell)

Init == InitAt(Null)

playbackVars == <<isPlaying, playheadPos, audioCtx, resumePending, currentTime,
                  startTimeRef, animationRef, frames, activeSources>>

-----------------------------------------------------------------------------
(* NoteStore: App.tsx lines 24-58, EditorCanvas.tsx lines 185-222, 238 *)

\* mutant: the last match instead of the first
FindIndexLast(ns, pitch, time) ==
    IF \E i \in 1..Len(ns) : ns[i].pitch = pitch /\ ns[i].time = time
    THEN CHOOSE i \in 1..Len(ns) :
             /\ ns[i].pitch = pitch /\ ns[i].time = time
             /\ \A j \in (i + 1)..Len(ns) : ~(ns[j].pitch = pitch /\ ns[j].time = time)
    ELSE 0

\* mutant: the match ignores the time
FindIndexPitchOnly(ns, pitch, time) ==
    IF \E i \in 1..Len(ns) : ns[i].pitch = pitch
    THEN CHOOSE i \in 1..Len(ns) :
             ns[i].pitch = pitch /\ \A j \in 1..(i - 1) : ns[j].pitch # pitch
    ELSE 0

\* notes.findIndex(n => n.pitch === pitch && n.time === time), 1-based, 0 for -1
FindIndex(ns, pitch, time) ==
    IF \E i \in 1..Len(ns) : ns[i].pitch = pitch /\ ns[i].time = time
    THEN CHOOSE i \in 1..Len(ns) :
             /\ ns[i].pitch = pitch /\ ns[i].time = time
             /\ \A j \in 1..(i - 1) : ~(ns[j].pitch = pitch /\ ns[j].time = time)
    ELSE 0

\* newNotes.splice(index, 1)
Splice(ns, index) == SubSeq(ns, 1, index - 1) \o SubSeq(ns, index + 1, Len(ns))

\* mutant: a click adds the note of the cell whether or not one is there
ToggledNotesAppends(ns, cell) ==
    Append(ns, Note(getPitchFromRow(cell.row), "quarter", "Lead", cell.col))

\* the sequence handleCanvasClick hands to onManualNotesChange
ToggledNotes(ns, cell) ==
    LET pitchAtRow == getPitchFromRow(cell.row)
        timeAtCol == cell.col
        existingIndex == FindIndex(ns, pitchAtRow, timeAtCol)
    IN  IF existingIndex # 0
        THEN Splice(ns, existingIndex)
        ELSE Append(ns, Note(pitchAtRow, "quarter", "Lead", timeAtCol))

handleCanvasClick ==
    /\ IF hoveredCell = Null
       THEN UNCHANGED <<notes, delivered>>
       ELSE /\ Len(ToggledNotes(notes, hoveredCell)) <= MaxNotes
            /\ notes' = ToggledNotes(notes, hoveredCell)
            /\ delivered' = ToggledNotes(notes, hoveredCell)
    /\ uncaught' = FALSE
    /\ UNCHANGED <<isLoading, hoveredCell, pointer, playbackVars>>

\* mutant: the row under the last row of the grid is taken for a cell
handleMouseMoveInclusive(x, y) ==
    LET row == y \div ROW_HEIGHT
        col == x \div PIXELS_PER_UNIT
    IN  /\ hoveredCell' = IF row >= 0 /\ row <= TOTAL_ROWS
                          THEN [row |-> row, col |-> col]
                          ELSE Null
        /\ pointer' = [x |-> x, y |-> y]
        /\ uncaught' = FALSE
        /\ UNCHANGED <<notes, delivered, isLoading, playbackVars>>

\* the pointer is at (x, y) relative to the workspace
handleMouseMove(x, y) ==
    LET row == y \div ROW_HEIGHT
        col == x \div PIXELS_PER_UNIT
    IN  /\ hoveredCell' = IF row >= 0 /\ row < TOTAL_ROWS
                          THEN [row |-> row, col |-> col]
                          ELSE Null
        /\ pointer' = [x |-> x, y |-> y]
        /\ uncaught' = FALSE
        /\ UNCHANGED <<notes, delivered, isLoading, playbackVars>>

\* onMouseLeave
handleMouseLeave ==
    /\ hoveredCell' = Null
    /\ uncaught' = FALSE
    /\ UNCHANGED <<notes, delivered, isLoading, pointer, playbackVars>>

\* mutant: Reset Canvas silences the voices of the playback as well
ResetCanvasSilences ==
    /\ notes' = <<>>
    /\ delivered' = <<>>
    /\ activeSources' = <<>>
    /\ uncaught' = FALSE
    /\ UNCHANGED <<isLoading, hoveredCell, pointer, isPlaying, playheadPos,
                   audioCtx, resumePending, currentTime, startTimeRef,
                   animationRef, frames>>

\* the Reset Canvas button: onManualNotesChange([])
ResetCanvas ==
    /\ notes' = <<>>
    /\ delivered' = <<>>
    /\ uncaught' = FALSE
    /\ UNCHANGED <<isLoading, hoveredCell, pointer, playbackVars>>

\* handleSendMessage up to its await
handleSendMessage ==
    /\ ~isLoading
    /\ isLoading' = TRUE
    /\ uncaught' = FALSE
    /\ UNCHANGED <<notes, delivered, hoveredCell, pointer, playbackVars>>

\* mutant: the first note of the sequence in place survives the delivery
AiResponseKeepsFirst(sequence) ==
    /\ isLoading
    /\ notes' = IF notes = <<>> THEN sequence ELSE <<notes[1]>> \o sequence
    /\ delivered' = sequence
    /\ isLoading' = FALSE
    /\ uncaught' = FALSE
    /\ UNCHANGED <<hoveredCell, pointer, playbackVars>>

\* handleSendMessage after its await: the response arrives
AiResponse(sequence) ==
    /\ isLoading
    /\ notes' = sequence
    /\ delivered' = sequence
    /\ isLoading' = FALSE
    /\ uncaught' = FALSE
    /\ UNCHANGED <<hoveredCell, pointer, playbackVars>>

\* handleSendMessage after its await: generateMusicChat rejected
AiError ==
    /\ isLoading
    /\ isLoading' = FALSE
    /\ uncaught' = FALSE
    /\ UNCHANGED <<notes, delivered, hoveredCell, pointer, playbackVars>>

-----------------------------------------------------------------------------
(* PlaybackScheduler: EditorCanvas.tsx lines 105-183 *)

noteVars == <<notes, delivered, isLoading, hoveredCell, pointer>>

\* playNote from the computed frequency on: the activeSources it leaves, and
\* whether it threw.  AudioParam.setValueAtTime and the ramps take Web IDL
\* float and double arguments: a NaN argument makes the call throw a
\* TypeError, and the oscillator created for the note is neither started nor
\* pushed.
PlayedNote(srcs, note, startTime, freq, dur) ==
    IF NumLeq(freq, Num(0))
    THEN [activeSources |-> srcs, threw |-> FALSE]
    ELSE IF ~IsFinite(freq) \/ ~IsFinite(dur)
    THEN [activeSources |-> srcs, threw |-> TRUE]
    ELSE [activeSources |->
              Append(srcs,
                     [frequency |-> freq.n,
                      type |-> IF ContainsBass(note.instrument) THEN "triangle"
                               ELSE "sawtooth",
                      startTime |-> startTime,
                      stopTime |-> startTime + dur.n]),
          threw |-> FALSE]

playNote(srcs, note, startTime) ==
    PlayedNote(srcs, note, startTime, getFrequencyFromPitch(note.pitch),
               NumMul(DurationUnits(note.duration),
                      Num(SECONDS_PER_BEAT \div QUARTER_DURATION)))

\* noteEnd = note.time + (DURATION_MAP[note.duration] || 4)
NoteEnd(note) == NumAdd(Num(note.time), DurationUnits(note.duration))

\* mutant: maxTime is the end of the last note scheduled
NextMaxTimeLast(noteEnd, maxTime) == noteEnd.n

\* if (noteEnd > maxTime) maxTime = noteEnd
NextMaxTime(noteEnd, maxTime) ==
    IF NumGt(noteEnd, Num(maxTime)) THEN noteEnd.n ELSE maxTime

\* notes.forEach(note => { ... }) of play, from note i on: the loop ends at the
\* first note whose playNote throws.  AfterNote is the rest of the loop once
\* playNote has returned `played` for note i.
RECURSIVE ScheduleFrom(_, _, _, _)
RECURSIVE AfterNote(_, _, _, _, _)
AfterNote(ns, i, now, maxTime, played) ==
    IF played.threw
    THEN [activeSources |-> played.activeSources, maxTime |-> maxTime,
          threw |-> TRUE]
    ELSE ScheduleFrom(ns, i + 1, now,
             [activeSources |-> played.activeSources,
              maxTime |-> NextMaxTime(NoteEnd(ns[i]), maxTime),
              threw |-> FALSE])

ScheduleFrom(ns, i, now, acc) ==
    IF i > Len(ns) THEN acc
    ELSE AfterNote(ns, i, now, acc.maxTime,
                   playNote(acc.activeSources, ns[i],
                            now + ns[i].time * (SECONDS_PER_BEAT \div 4)))

\* requestAnimationFrame returns a handle no pending request and no handle the
\* program still holds has; only its identity and its truthiness are used
FreshFrameId ==
    CHOOSE i \in 1..(Cardinality(frames) + 2) :
        i # animationRef /\ \A f \in frames : f.id # i

\* cancelAnimationFrame(id)
CancelFrame(fs, id) == {f \in fs : f.id # id}

\* a voice has ended by itself once the audio clock has passed its stop time
Ended(osc) == currentTime >= osc.stopTime

\* mutant: no try/catch around s.stop(), the first exception ends the loop and
\* the handler
RECURSIVE StopSourcesNoCatch(_, _, _, _)
StopSourcesNoCatch(srcs, i, raises, acc) ==
    IF i > Len(srcs) THEN acc
    ELSE IF raises /\ Ended(srcs[i])
    THEN [calls |-> acc.calls + 1, raised |-> acc.raised, completed |-> FALSE]
    ELSE StopSourcesNoCatch(srcs, i + 1, raises,
             [calls |-> acc.calls + 1, raised |-> acc.raised, completed |-> TRUE])

\* activeSources.current.forEach(s => { try { s.stop(); } catch(e){} }) from
\* index i on.  raises says whether stop() throws on a voice that has already
\* ended.  The result counts the stop() calls made and the exceptions caught,
\* and tells whether the loop ran to its end.
RECURSIVE StopSources(_, _, _, _)
StopSources(srcs, i, raises, acc) ==
    IF i > Len(srcs) THEN acc
    ELSE StopSources(srcs, i + 1, raises,
             [calls |-> acc.calls + 1,
              raised |-> acc.raised + (IF raises /\ Ended(srcs[i]) THEN 1 ELSE 0),
              completed |-> TRUE])

\* mutant: the stop pauses, it leaves the playhead where it is
playStopPauses(raises) ==
    \E stopped \in {StopSources(activeSources, 1, raises,
                         [calls |-> 0, raised |-> 0, completed |-> TRUE])} :
        /\ isPlaying
        /\ frames' = IF animationRef # 0 THEN CancelFrame(frames, animationRef)
                      ELSE frames
        /\ stopCalls' = stopped.calls
        /\ stopRaised' = stopped.raised
        /\ activeSources' = <<>>
        /\ isPlaying' = FALSE
        /\ uncaught' = FALSE
        /\ UNCHANGED <<noteVars, playheadPos, audioCtx, resumePending, currentTime,
                       startTimeRef, animationRef>>

\* play, the branch taken when isPlaying: the transport button reads STOP PLAYBACK
playStop(raises) ==
    \E stopped \in {StopSources(activeSources, 1, raises,
                         [calls |-> 0, raised |-> 0, completed |-> TRUE])} :
        /\ isPlaying
        /\ frames' = IF animationRef # 0 THEN CancelFrame(frames, animationRef)
                      ELSE frames
        /\ stopCalls' = stopped.calls
        /\ stopRaised' = stopped.raised
        /\ IF stopped.completed
           THEN /\ activeSources' = <<>>
                /\ isPlaying' = FALSE
                /\ playheadPos' = 0
                /\ uncaught' = FALSE
           ELSE /\ uncaught' = TRUE
                /\ UNCHANGED <<activeSources, isPlaying, playheadPos>>
        /\ UNCHANGED <<noteVars, audioCtx, resumePending, currentTime, startTimeRef,
                       animationRef>>

\* play, the branch taken when not isPlaying, when initAudio throws: the
\* AudioContext constructor fails
playStartNoAudio ==
    /\ ~isPlaying
    /\ audioCtx = "null"
    /\ uncaught' = TRUE
    /\ UNCHANGED <<noteVars, playbackVars>>

\* play, the branch taken when not isPlaying: the transport button reads START
\* PLAYBACK.  newState is the state a newly constructed AudioContext is in;
\* scheduled is what the loop over the notes leaves.
playStart(newState) ==
    \E state \in {IF audioCtx = "null" THEN newState ELSE audioCtx},
       scheduled \in {ScheduleFrom(notes, 1, currentTime,
                          [activeSources |-> activeSources, maxTime |-> 0,
                           threw |-> FALSE])} :
        /\ ~isPlaying
        /\ Len(activeSources) + Len(notes) <= MaxOsc
        /\ audioCtx' = state
        /\ resumePending' = (resumePending \/ state = "suspended")
        /\ startTimeRef' = currentTime
        /\ activeSources' = scheduled.activeSources
        /\ IF scheduled.threw
           THEN /\ uncaught' = TRUE
                /\ UNCHANGED <<isPlaying, animationRef, frames>>
           ELSE /\ uncaught' = FALSE
                /\ isPlaying' = TRUE
                /\ animationRef' = FreshFrameId
                /\ frames' = frames \cup
                       {[id |-> FreshFrameId,
                         totalDurationSeconds |->
                             scheduled.maxTime * (SECONDS_PER_BEAT \div 4)]}
        /\ UNCHANGED <<noteVars, playheadPos, currentTime>>

\* mutant: the tick publishes the playhead before it tests for the end
animatePublishes(f) ==
    LET elapsed == currentTime - startTimeRef
    IN  /\ f \in frames
        /\ playheadPos' = elapsed * PIXELS_PER_SECOND
        /\ IF elapsed >= f.totalDurationSeconds
           THEN /\ isPlaying' = FALSE
                /\ frames' = frames \ {f}
                /\ UNCHANGED animationRef
           ELSE /\ animationRef' = FreshFrameId
                /\ frames' = (frames \ {f}) \cup
                       {[id |-> FreshFrameId,
                         totalDurationSeconds |-> f.totalDurationSeconds]}
                /\ UNCHANGED isPlaying
        /\ uncaught' = FALSE
        /\ UNCHANGED <<noteVars, audioCtx, resumePending, currentTime, startTimeRef,
                       activeSources>>

\* mutant: the playback ends only once elapsed exceeds the total
animateStrict(f) ==
    LET elapsed == currentTime - startTimeRef
    IN  /\ f \in frames
        /\ IF elapsed > f.totalDurationSeconds
           THEN /\ isPlaying' = FALSE
                /\ playheadPos' = 0
                /\ frames' = frames \ {f}
                /\ UNCHANGED animationRef
           ELSE /\ playheadPos' = elapsed * PIXELS_PER_SECOND
                /\ animationRef' = FreshFrameId
                /\ frames' = (frames \ {f}) \cup
                       {[id |-> FreshFrameId,
                         totalDurationSeconds |-> f.totalDurationSeconds]}
                /\ UNCHANGED isPlaying
        /\ uncaught' = FALSE
        /\ UNCHANGED <<noteVars, audioCtx, resumePending, currentTime, startTimeRef,
                       activeSources>>

\* animate: the browser runs the pending frame callback f
animate(f) ==
    LET elapsed == currentTime - startTimeRef
    IN  /\ f \in frames
        /\ IF elapsed >= f.totalDurationSeconds
           THEN /\ isPlaying' = FALSE
                /\ playheadPos' = 0
                /\ frames' = frames \ {f}
                /\ UNCHANGED animationRef
           ELSE /\ playheadPos' = elapsed * PIXELS_PER_SECOND
                /\ animationRef' = FreshFrameId
                /\ frames' = (frames \ {f}) \cup
                       {[id |-> FreshFrameId,
                         totalDurationSeconds |-> f.totalDurationSeconds]}
                /\ UNCHANGED isPlaying
        /\ uncaught' = FALSE
        /\ UNCHANGED <<noteVars, audioCtx, resumePending, currentTime, startTimeRef,
                       activeSources>>

\* the promise of ctx.resume() settles: the context runs, or the promise is
\* rejected and nothing observes the rejection
ResumeSettles(resolved) ==
    /\ resumePending
    /\ resumePending' = FALSE
    /\ audioCtx' = IF resolved THEN "running" ELSE audioCtx
    /\ UNCHANGED <<noteVars, isPlaying, playheadPos, currentTime, startTimeRef,
                   animationRef, frames, activeSources, stopCalls, stopRaised,
                   uncaught>>

\* the audio clock advances by d while the context runs
ClockAdvances(d) ==
    /\ audioCtx = "running"
    /\ d > 0
    /\ currentTime + d <= MaxClock
    /\ currentTime' = currentTime + d
    /\ UNCHANGED <<noteVars, isPlaying, playheadPos, audioCtx, resumePending,
                   startTimeRef, animationRef, frames, activeSources, stopCalls,
                   stopRaised, uncaught>>

-----------------------------------------------------------------------------
(* Specifications *)

\* history: a handler other than the stop of playback ran
Did(op) ==
    /\ lastOp' = op
    /\ stopCalls' = 0
    /\ stopRaised' = 0
    /\ UNCHANGED <<before, before2>>

\* history: the stop of playback ran
DidStop == lastOp' = "stop" /\ UNCHANGED <<before, before2>>

\* history: a step of the environment, which is no handler of the program
Env == UNCHANGED <<lastOp, stopCalls, stopRaised, before, before2>>

\* history kept by the editing specification: the last two note sequences
Edited(op) ==
    /\ lastOp' = op
    /\ before' = notes
    /\ before2' = before
    /\ UNCHANGED <<stopCalls, stopRaised>>

\* pointer positions: the middle of the cell (row, col)
PointerX(col) == col * PIXELS_PER_UNIT + PIXELS_PER_UNIT \div 2
PointerY(row) == row * ROW_HEIGHT + ROW_HEIGHT \div 2

\* the rows the pointer visits: C4 (MIDI 60), and the first row under the grid
TransportRows == {START_MIDI - 60, TOTAL_ROWS}

Transport ==
    \/ (\E raises \in BOOLEAN : playStop(raises)) /\ DidStop
    \/ playStartNoAudio /\ Did("start")
    \/ (\E newState \in {"suspended", "running"} : playStart(newState))
           /\ Did("start")
    \/ (\E f \in frames : animate(f)) /\ Did("animate")
    \/ (\E resolved \in BOOLEAN : ResumeSettles(resolved)) /\ Env
    \/ (\E d \in 1..MaxClock : ClockAdvances(d)) /\ Env

Next ==
    \/ Transport
    \/ (\E row \in TransportRows :
            handleMouseMove(PointerX(0), PointerY(row))) /\ Did("edit")
    \/ handleCanvasClick /\ Did("edit")
    \/ ResetCanvas /\ Did("edit")
    \/ handleSendMessage /\ Did("edit")
    \/ (\E sequence \in TransportSequences : AiResponse(sequence)) /\ Did("edit")
    \/ AiError /\ Did("edit")

Spec == Init /\ [][Next]_vars

\* The editing specification: the handlers that change the note sequence, over
\* more cells and more delivered sequences, with the history of the last two
\* note sequences.  A click that follows a click is recorded as "click2".
EditRows == {START_MIDI - 61, START_MIDI - 60, TOTAL_ROWS}

NextEdit ==
    \/ (\E row \in EditRows, col \in 0..MaxCol :
            handleMouseMove(PointerX(col), PointerY(row))) /\ Edited("move")
    \/ handleMouseLeave /\ Edited("leave")
    \/ handleCanvasClick
           /\ Edited(IF lastOp \in {"click", "click2"} THEN "click2" ELSE "click")
    \/ ResetCanvas /\ Edited("reset")
    \/ handleSendMessage /\ Edited("send")
    \/ (\E sequence \in TransportSequences \cup EditSequences :
            AiResponse(sequence)) /\ Edited("ai")
    \/ AiError /\ Edited("aierror")

SpecEdit == Init /\ [][NextEdit]_vars

\* The pitch specification: the pointer rests on any cell of the first column
\* of the grid, and the cell is clicked.
InitPitch == \E row \in 0..(TOTAL_ROWS - 1) : InitAt([row |-> row, col |-> 0])

NextPitch == handleCanvasClick /\ Did("click")

SpecPitch == InitPitch /\ [][NextPitch]_vars

\* The pointer specification: the pointer moves over the edges of the first
\* and the last rows and columns of the grid and just outside them, and
\* clicks.  Only the note sequence before the last step is kept as history.
PointerYs ==
    {-1, 0, ROW_HEIGHT - 1, ROW_HEIGHT, TOTAL_ROWS * ROW_HEIGHT - 1,
     TOTAL_ROWS * ROW_HEIGHT}

PointerXs == {0, PIXELS_PER_UNIT - 1} \cup {col * PIXELS_PER_UNIT : col \in 1..MaxCol}

Pointed(op) ==
    /\ lastOp' = op
    /\ before' = notes
    /\ UNCHANGED <<before2, stopCalls, stopRaised>>

NextPointer ==
    \/ (\E x \in PointerXs, y \in PointerYs : handleMouseMove(x, y)) /\ Pointed("move")
    \/ handleMouseLeave /\ Pointed("leave")
    \/ handleCanvasClick /\ Pointed("click")

SpecPointer == Init /\ [][NextPointer]_vars

\* The flat-spelling specification: the transport over one delivered note
\* whose pitch is one of the five flats, with the letter in either case, in
\* any octave.
FlatLetters == {"D", "E", "G", "A", "B", "d", "e", "g", "a", "b"}

FlatPitches == {<<l, "b", Digits[k]>> : l \in FlatLetters, k \in 1..10}

InitFlat == \E p \in FlatPitches : InitOf(<<Note(p, "quarter", "Lead", 0)>>, Null)

SpecFlat == InitFlat /\ [][Transport]_vars

\* The scheduling specification: the transport over a note sequence that was
\* delivered before and is not edited.
InitSchedule == \E sequence \in ScheduleSequences : InitOf(sequence, Null)

SpecSchedule == InitSchedule /\ [][Transport]_vars

\* The liveness specification: the transport over a delivered sequence, where
\* the browser runs every frame callback that stays requested, the clock of a
\* running audio context advances, and the promise of resume() settles, one
\* way or the other.
InitLive == \E sequence \in LiveSequences : InitOf(sequence, Null)

Tick == (\E f \in frames : animate(f)) /\ Did("animate")

ClockRuns == (\E d \in 1..MaxClock : ClockAdvances(d)) /\ Env

ResumeEnds == (\E resolved \in BOOLEAN : ResumeSettles(resolved)) /\ Env

SpecLive ==
    /\ InitLive
    /\ [][Transport]_vars
    /\ WF_vars(Tick)
    /\ WF_vars(ClockRuns)
    /\ WF_vars(ResumeEnds)

-----------------------------------------------------------------------------
(* Rendering: EditorCanvas.tsx lines 320-324 *)

\* the row note i of the sequence is drawn in
DrawnRow(ns, i) == getRowFromPitch(ns[i].pitch)

\* width = (DURATION_MAP[note.duration] || 4) * (PIXELS_PER_UNIT / 4)
DrawnWidth(ns, i) ==
    NumMul(DurationUnits(ns[i].duration), Num(PIXELS_PER_UNIT \div 4))

-----------------------------------------------------------------------------
(* Properties *)

\* the indices of the notes of ns that have pitch p and time t
Matches(ns, p, t) == {i \in 1..Len(ns) : ns[i].pitch = p /\ ns[i].time = t}

Least(S) == CHOOSE i \in S : \A j \in S : i <= j

\* C8: for every row in [0,85), the row of the pitch of the row is the row: the
\* pitch of the hovered row parses back to that row, and the note a click adds
\* at a cell is drawn in the row of the cell.
C8_RoundTrip ==
    hoveredCell # Null =>
        /\ getRowFromPitch(getPitchFromRow(hoveredCell.row)) = Num(hoveredCell.row)
        /\ (lastOp = "click" /\ notes # <<>>) =>
               DrawnRow(notes, Len(notes)) = Num(hoveredCell.row)

\* a click has added a note in the lowest row of the grid, C1, whose MIDI note
\* 24 is the least of the range
C8_Witness ==
    /\ lastOp = "click"
    /\ hoveredCell # Null
    /\ hoveredCell.row = TOTAL_ROWS - 1
    /\ Len(notes) = 1
    /\ notes[1].pitch = <<"C", "1">>

\* C9: a click on a cell (p, t) whose sequence holds a note with pitch p and
\* time t removes the first such note and keeps the others in order; on a
\* sequence with no such note it appends {p, quarter, Lead, t} and keeps the
\* existing notes in place.
C9_Toggle ==
    (lastOp \in {"click", "click2"} /\ hoveredCell # Null) =>
        LET p == getPitchFromRow(hoveredCell.row)
            t == hoveredCell.col
            M == Matches(before, p, t)
        IN  IF M # {}
            THEN /\ Len(notes) = Len(before) - 1
                 /\ \A i \in 1..Len(notes) :
                        notes[i] = IF i < Least(M) THEN before[i] ELSE before[i + 1]
            ELSE /\ Len(notes) = Len(before) + 1
                 /\ \A i \in 1..Len(before) : notes[i] = before[i]
                 /\ notes[Len(notes)] =
                        [pitch |-> p, duration |-> "quarter", instrument |-> "Lead",
                         time |-> t]

\* a click has removed the first of two notes with the pitch and time of the
\* cell that differ in duration and instrument
C9_Witness ==
    /\ lastOp = "click"
    /\ hoveredCell # Null
    /\ Cardinality(Matches(before, getPitchFromRow(hoveredCell.row),
                            hoveredCell.col)) = 2
    /\ before[1].instrument # before[2].instrument
    /\ before[1].duration # before[2].duration
    /\ notes = <<before[2]>>

\* C10: two clicks in a row on a cell (p, t) whose sequence held no note with
\* pitch p and time t give back the sequence as it was.
C10_ToggleTwice ==
    (lastOp = "click2" /\ hoveredCell # Null
     /\ Matches(before2, getPitchFromRow(hoveredCell.row), hoveredCell.col) = {}) =>
        notes = before2

\* two clicks in a row on a cell with no note of its own, on a sequence that
\* holds another note: the first click added a note
C10_Witness ==
    /\ lastOp = "click2"
    /\ hoveredCell # Null
    /\ Matches(before2, getPitchFromRow(hoveredCell.row), hoveredCell.col) = {}
    /\ before2 # <<>>
    /\ Len(before) = Len(before2) + 1
    /\ notes = before2

\* the notes of ns whose pitch matches <letter A-G>[#|b]<octave digit>
GrammarNotes(ns) == {i \in 1..Len(ns) : PitchMatch(ns[i].pitch).ok}

\* C1: a pitch that does not match the grammar has frequency 0, and a start
\* that enters Playing has created one voice for each note whose pitch matches
\* the grammar and none for the others.
C1_InvalidPitchSilent ==
    [][(~isPlaying /\ isPlaying' /\ lastOp' = "start") =>
          /\ \A i \in 1..Len(notes) :
                 ~PitchMatch(notes[i].pitch).ok =>
                     getFrequencyFromPitch(notes[i].pitch) = Num(0)
          /\ Len(activeSources') =
                 Len(activeSources) + Cardinality(GrammarNotes(notes))]_vars

\* the voice start schedules for note i of ns when the audio clock reads now
VoiceOf(ns, i, now) ==
    [frequency |-> getFrequencyFromPitch(ns[i].pitch).n,
     type |-> IF ContainsBass(ns[i].instrument) THEN "triangle" ELSE "sawtooth",
     startTime |-> now + ns[i].time,
     stopTime |-> now + ns[i].time + DurationUnits(ns[i].duration).n]

\* C2: whatever pitches and durations the notes carry, a start that has the
\* audio context does not raise, enters Playing, and has scheduled a voice for
\* every note whose pitch has a frequency.
C2_StartNeverAborts ==
    (lastOp = "start" /\ audioCtx # "null") =>
        /\ ~uncaught
        /\ isPlaying
        /\ \A i \in 1..Len(notes) :
               IsFinite(getFrequencyFromPitch(notes[i].pitch)) =>
                   \E k \in 1..Len(activeSources) :
                       activeSources[k] = VoiceOf(notes, i, startTimeRef)

\* C3: a transport command that is issued while the scheduler is Idle raises
\* nothing and leaves isPlaying false, the playhead at 0, no voice scheduled
\* and no tick requested.
C3_StopWhenIdleNoOp ==
    [][(~isPlaying /\ lastOp' \in {"start", "stop"}) =>
          /\ ~isPlaying'
          /\ playheadPos' = 0
          /\ activeSources' = activeSources
          /\ frames' = frames
          /\ (uncaught' => uncaught)]_vars

\* C4: when the scheduler is Idle at the start, after an explicit stop or after
\* the natural end of the sequence, the live-voice set is empty.
C4_IdleNoVoices ==
    (~isPlaying /\ lastOp \in {"init", "stop", "animate"}) => activeSources = <<>>

\* C5: when the audio context cannot be created, or its resume() is rejected,
\* the play attempt has not started: isPlaying is false, the playhead is 0, no
\* tick is pending, and the failure was raised to the caller.
C5_NoAudioNoStart ==
    (lastOp = "start" /\ (audioCtx = "null"
                           \/ (audioCtx = "suspended" /\ ~resumePending))) =>
        /\ ~isPlaying
        /\ playheadPos = 0
        /\ frames = {}
        /\ uncaught

\* C6: a stop of playback cancels the pending tick, calls stop() on every voice
\* of the live-voice set whether or not an earlier call raised, empties the
\* set, sets isPlaying false and the playhead to 0; and no tick is pending
\* while the scheduler is not Playing, so none moves the playhead later.
C6_Stop ==
    /\ [](~isPlaying => frames = {})
    /\ [][(isPlaying /\ lastOp' = "stop") =>
             /\ frames' = {}
             /\ stopCalls' = Len(activeSources)
             /\ activeSources' = <<>>
             /\ ~isPlaying'
             /\ playheadPos' = 0
             /\ ~uncaught']_vars

\* a stop has called stop() on two voices, the first of which had ended and
\* raised
C6_Witness ==
    /\ lastOp = "stop"
    /\ ~isPlaying
    /\ stopCalls = 2
    /\ stopRaised >= 1
    /\ playheadPos = 0
    /\ activeSources = <<>>

\* C7: a start on the empty sequence computes a total of 0; the tick that
\* follows ends the playback with the playhead at 0; and no playhead other than
\* 0 is published meanwhile.
C7_EmptySequence ==
    /\ []((isPlaying /\ \A f \in frames : f.totalDurationSeconds = 0) =>
              playheadPos = 0)
    /\ [][(~isPlaying /\ isPlaying' /\ notes = <<>>) =>
              /\ frames' # {}
              /\ \A f \in frames' : f.totalDurationSeconds = 0]_vars
    /\ [][(isPlaying /\ lastOp' = "animate"
            /\ \A f \in frames : f.totalDurationSeconds = 0) =>
              /\ ~isPlaying'
              /\ playheadPos' = 0
              /\ frames' = {}]_vars

\* the first tick of a playback of the empty sequence has ended it: no time
\* has elapsed since the start
C7_Witness ==
    /\ lastOp = "animate"
    /\ ~isPlaying
    /\ audioCtx = "running"
    /\ currentTime = startTimeRef
    /\ notes = <<>>
    /\ playheadPos = 0

\* the duration table of the specification: whole 16, half 8, quarter 4,
\* eighth 2, and 4 for every other name
TableUnits(d) ==
    CASE d = "whole" -> 16 [] d = "half" -> 8 [] d = "quarter" -> 4
      [] d = "eighth" -> 2 [] OTHER -> 4

\* the maximum over the notes of ns of time + units of the duration, 0 for none
MaxUnits(ns) ==
    IF ns = <<>> THEN 0
    ELSE CHOOSE m \in {ns[i].time + TableUnits(ns[i].duration) : i \in 1..Len(ns)} :
             \A i \in 1..Len(ns) : ns[i].time + TableUnits(ns[i].duration) <= m

\* units * secondsPerBeat / 4
secondsOf(units) == units * (SECONDS_PER_BEAT \div 4)

SchedulingBoundNotes ==
    << Note(<<"C", "4">>, "quarter", "Lead", 0),
       Note(<<"E", "4">>, "quarter", "Lead", 8) >>

\* C11: a start that enters Playing hands its ticks the total secondsOf of the
\* maximum over all notes of time + durationUnits(duration), which is 0 for
\* the empty sequence and secondsOf(12) for {C4, quarter, 0}, {E4, quarter, 8}.
C11_TotalSeconds ==
    (lastOp = "start" /\ isPlaying) =>
        /\ frames # {}
        /\ \A f \in frames : f.totalDurationSeconds = secondsOf(MaxUnits(notes))
        /\ notes = <<>> => \A f \in frames : f.totalDurationSeconds = 0
        /\ notes = SchedulingBoundNotes =>
               \A f \in frames : f.totalDurationSeconds = secondsOf(8 + 4)

\* the two notes of the scheduling bound have been started: the pending tick
\* carries 12 grid units
C11_Witness ==
    /\ lastOp = "start"
    /\ isPlaying
    /\ notes = SchedulingBoundNotes
    /\ \E f \in frames : f.totalDurationSeconds = 12 * (SECONDS_PER_BEAT \div 4)
    /\ Len(activeSources) = 2

\* the active cell of the pointer position (x, y), Null for none
CellAt(x, y) ==
    IF 0 <= y \div ROW_HEIGHT /\ y \div ROW_HEIGHT < 85
    THEN [row |-> y \div ROW_HEIGHT, col |-> x \div PIXELS_PER_UNIT]
    ELSE Null

\* toggle(p, t) on ns: without the first note with pitch p and time t, or with
\* a new note {p, quarter, Lead, t} at the end when there is none
Toggle(ns, p, t) ==
    IF Matches(ns, p, t) = {}
    THEN ns \o <<[pitch |-> p, duration |-> "quarter", instrument |-> "Lead",
                  time |-> t]>>
    ELSE [i \in 1..(Len(ns) - 1) |->
              IF i < Least(Matches(ns, p, t)) THEN ns[i] ELSE ns[i + 1]]

\* C12: a mouse move at (x, y) makes {floor(y / 20), floor(x / 32)} the active
\* cell exactly when the row is in [0, 85), and no cell is active otherwise; a
\* click with no active cell leaves the note sequence as it was, and a click
\* on an active cell applies toggle(pitchOf(row), col) once.
C12_CellAt ==
    /\ lastOp = "move" => hoveredCell = CellAt(pointer.x, pointer.y)
    /\ (lastOp = "click" /\ hoveredCell = Null) => notes = before
    /\ (lastOp = "click" /\ hoveredCell # Null) =>
           /\ notes = Toggle(before, getPitchFromRow(hoveredCell.row),
                             hoveredCell.col)
           /\ notes # before

\* the pointer is on the last pixel row of the grid, in the second column, and
\* a click has added the note of the cell to a sequence that held another
C12_Witness ==
    /\ lastOp = "click"
    /\ pointer # Null
    /\ pointer.y = TOTAL_ROWS * ROW_HEIGHT - 1
    /\ hoveredCell = [row |-> TOTAL_ROWS - 1, col |-> 1]
    /\ Len(before) = 1
    /\ notes = Append(before, Note(<<"C", "1">>, "quarter", "Lead", 1))

\* C13: the note sequence is at all times the sequence that was delivered
\* last, whole: after the AI response it is one of the sequences the
\* collaborator delivers, whatever was toggled while the request was awaited,
\* and after Reset Canvas it is empty.
C13_ReplaceAll ==
    /\ notes = delivered
    /\ lastOp = "ai" => notes \in TransportSequences \cup EditSequences
    /\ lastOp = "reset" => notes = <<>>

\* the AI response has replaced a sequence to which a click had added a note
\* while the request was awaited, and none of its notes is in the result
C13_Witness ==
    /\ lastOp = "ai"
    /\ Len(before) = Len(before2) + 1
    /\ notes # <<>>
    /\ \A i \in 1..Len(notes), j \in 1..Len(before) : notes[i] # before[j]

\* the sharp spelling of the flat spelling p: Db -> C#, Eb -> D#, Gb -> F#,
\* Ab -> G#, Bb -> A#, in the octave of p
SharpOf(p) ==
    LET l == p[1]
    IN  << CASE l \in {"D", "d"} -> "C" [] l \in {"E", "e"} -> "D"
             [] l \in {"G", "g"} -> "F" [] l \in {"A", "a"} -> "G"
             [] l \in {"B", "b"} -> "A",
           "#", p[3] >>

IsFlatSpelling(p) ==
    Len(p) = 3 /\ p[1] \in FlatLetters /\ p[2] = "b" /\ IsDigit(p[3])

\* C14: the row of a flat spelling Db, Eb, Gb, Ab, Bb, with the letter in
\* either case and any octave digit, is the row of the sharp spelling C#, D#,
\* F#, G#, A# of that octave, and the voice scheduled for it has the frequency
\* of the sharp; the row of Db4 is the row of C#4.
C14_FlatNormalization ==
    /\ getRowFromPitch(<<"D", "b", "4">>) = getRowFromPitch(<<"C", "#", "4">>)
    /\ \A i \in 1..Len(notes) :
           IsFlatSpelling(notes[i].pitch) =>
               /\ DrawnRow(notes, i) = getRowFromPitch(SharpOf(notes[i].pitch))
               /\ ~DrawnRow(notes, i).nan
               /\ (lastOp = "start" /\ isPlaying) =>
                      \A k \in 1..Len(activeSources) :
                          Num(activeSources[k].frequency) =
                              getFrequencyFromPitch(SharpOf(notes[i].pitch))

\* the note db4 has been started: its voice sounds at the 277.18 Hz of C#4
C14_Witness ==
    /\ lastOp = "start"
    /\ isPlaying
    /\ notes # <<>>
    /\ notes[1].pitch = <<"d", "b", "4">>
    /\ DrawnRow(notes, 1) = Num(START_MIDI - 61)
    /\ Len(activeSources) = 1
    /\ activeSources[1].frequency = 277184

\* C15: the units of a duration are 16 for whole, 8 for half, 4 for quarter,
\* 2 for eighth and 4 for every other name; once a start has run with the
\* audio context, every note is drawn that many quarter units wide, has a
\* voice that many grid units long, and the total is the maximum over the
\* notes of time + units.
C15_DurationTable ==
    (lastOp = "start" /\ audioCtx # "null") =>
        /\ \A i \in 1..Len(notes) :
               /\ DurationUnits(notes[i].duration) =
                      Num(TableUnits(notes[i].duration))
               /\ DrawnWidth(notes, i) =
                      Num(TableUnits(notes[i].duration) * (PIXELS_PER_UNIT \div 4))
               /\ \E k \in 1..Len(activeSources) :
                      /\ activeSources[k].startTime =
                             startTimeRef + secondsOf(notes[i].time)
                      /\ activeSources[k].stopTime - activeSources[k].startTime =
                             secondsOf(TableUnits(notes[i].duration))
        /\ frames # {}
        /\ \A f \in frames : f.totalDurationSeconds = secondsOf(MaxUnits(notes))

\* C16: a start that enters Playing at the clock value t0 adds to the
\* live-voice set one voice for each note whose pitch matches the grammar and
\* no other, from t0 + secondsOf(time) to that + secondsOf(units of the
\* duration); and no other step adds a voice: not a tick, not a note edit.
C16_VoicesAtStart ==
    /\ [][(~isPlaying /\ isPlaying') =>
              /\ Len(activeSources') =
                     Len(activeSources) + Cardinality(GrammarNotes(notes))
              /\ \A i \in GrammarNotes(notes) :
                     \E k \in (Len(activeSources) + 1)..Len(activeSources') :
                         /\ activeSources'[k].startTime =
                                currentTime + secondsOf(notes[i].time)
                         /\ activeSources'[k].stopTime =
                                activeSources'[k].startTime
                                + secondsOf(TableUnits(notes[i].duration))]_vars
    /\ [][(isPlaying \/ lastOp' \in {"animate", "edit"}) =>
              activeSources' \in {activeSources, <<>>}]_vars

\* C17: a tick that runs while Playing, with elapsed the audio clock minus t0,
\* ends the playback when elapsed has reached the total of the playback (Idle,
\* no tick pending, playhead 0), and otherwise publishes elapsed *
\* pixelsPerSecond and requests one tick with the same total; so a playhead
\* other than 0 is only seen while Playing and is under total * pixelsPerSecond.
C17_Tick ==
    /\ [][(isPlaying /\ lastOp' = "animate" /\ frames' # frames) =>
              \E f \in frames :
                  IF currentTime - startTimeRef >= f.totalDurationSeconds
                  THEN /\ ~isPlaying'
                       /\ frames' = {}
                       /\ playheadPos' = 0
                  ELSE /\ isPlaying'
                       /\ playheadPos' =
                              (currentTime - startTimeRef) * PIXELS_PER_SECOND
                       /\ Cardinality(frames') = 1
                       /\ \A g \in frames' :
                              g.totalDurationSeconds = f.totalDurationSeconds]_vars
    /\ [](playheadPos >= 0)
    /\ [](playheadPos # 0 =>
              /\ isPlaying
              /\ \A f \in frames :
                     playheadPos < f.totalDurationSeconds * PIXELS_PER_SECOND)

\* a tick has published the playhead three grid units into a playback of four
C17_Witness ==
    /\ lastOp = "animate"
    /\ isPlaying
    /\ currentTime - startTimeRef = 3
    /\ playheadPos = 3 * PIXELS_PER_SECOND
    /\ \E f \in frames : f.totalDurationSeconds = 4

\* C18: in every reachable state, whatever the order of starts, stops, ticks
\* and note edits, the scheduler that is not Playing has its playhead at 0 and
\* no tick pending, and at most one tick is pending at any time.
C18_IdleRewound ==
    /\ ~isPlaying => (playheadPos = 0 /\ frames = {})
    /\ Cardinality(frames) <= 1

\* a playback of one voice was stopped between its start and its end: the
\* scheduler is Idle with the playhead back at 0 and no tick pending
C18_Witness ==
    /\ lastOp = "stop"
    /\ ~isPlaying
    /\ stopCalls = 1
    /\ stopRaised = 0
    /\ currentTime - startTimeRef \in 1..3
    /\ playheadPos = 0
    /\ frames = {}

\* what of the playback a note edit could disturb: isPlaying, the playhead,
\* t0, the pending tick with its total, and the live-voice set
PlaybackState == <<isPlaying, playheadPos, startTimeRef, frames, activeSources>>

\* C19: no step changes both the note sequence and the playback state; a note
\* edit (toggle, Reset Canvas, AI replacement) leaves isPlaying, the playhead,
\* t0, the total of the playback and the live-voice set as they are, also
\* while Playing; and start, stop and tick leave the note sequence as it is.
C19_Frame ==
    /\ [][notes' # notes => UNCHANGED PlaybackState]_vars
    /\ [][lastOp' = "edit" => UNCHANGED PlaybackState]_vars
    /\ [][(lastOp' \in {"start", "stop", "animate"}) => notes' = notes]_vars

\* Reset Canvas has emptied the sequence during a playback: the voice and the
\* total of the playback are those of the note that is gone
C19_Witness ==
    /\ isPlaying
    /\ lastOp = "edit"
    /\ notes = <<>>
    /\ Len(activeSources) = 1
    /\ \E f \in frames : f.totalDurationSeconds = 4

\* two notes of ns have the same pitch and the same time
HasDuplicate(ns) ==
    \E i, j \in 1..Len(ns) :
        i # j /\ ns[i].pitch = ns[j].pitch /\ ns[i].time = ns[j].time

\* C20: a sequence without two notes of one (pitch, time) pair gets such a
\* pair only by the delivery of a replacement that holds one, never by a
\* toggle; so the sequences reached from the empty one by toggles have none.
C20_NoDuplicateByToggle ==
    /\ [][(~HasDuplicate(notes) /\ HasDuplicate(notes')) =>
              (lastOp' = "ai" /\ notes' \in TransportSequences \cup EditSequences)]_vars
    /\ [][(lastOp' \in {"click", "click2"} /\ HasDuplicate(notes')) =>
              HasDuplicate(notes)]_vars

\* clicks on two cells of one column have made a sequence of two notes of the
\* toggle's making, with one time and two pitches
C20_Witness ==
    /\ lastOp = "click"
    /\ Len(notes) = 2
    /\ \A i \in 1..2 : notes[i].duration = "quarter" /\ notes[i].instrument = "Lead"
    /\ notes[1].pitch = <<"C", "4">>
    /\ notes[2].pitch = <<"C", "#", "4">>
    /\ notes[1].time = notes[2].time
    /\ ~HasDuplicate(notes)

\* the notes of ns that are drawn at the cell: in its row and at its column
DrawnAt(ns, cell) ==
    {i \in 1..Len(ns) : DrawnRow(ns, i) = Num(cell.row) /\ ns[i].time = cell.col}

\* C21: a click on an active cell at which at least one note is drawn removes
\* one of the notes drawn there and adds none: one note less in the sequence,
\* and one note less drawn at the cell, also for notes a replacement delivered
\* with a flat or a lower-case pitch name.
C21_ClickRemovesDrawn ==
    (lastOp \in {"click", "click2"} /\ hoveredCell # Null
     /\ DrawnAt(before, hoveredCell) # {}) =>
        /\ Len(notes) = Len(before) - 1
        /\ Cardinality(DrawnAt(notes, hoveredCell)) =
               Cardinality(DrawnAt(before, hoveredCell)) - 1

\* C22: a playback that is Playing, and whose end the audio clock can reach,
\* eventually is Idle again, whether or not a stop is issued and whether the
\* audio context was running or suspended when start was called.
C22_EventuallyIdle ==
    (isPlaying /\ \A f \in frames :
                      startTimeRef + f.totalDurationSeconds <= MaxClock)
        ~> ~isPlaying

=============================================================================
